---------------------------- MODULE Spec2Model ----------------------------
(***************************************************************************)
(* State-machine model of IPythonParallelKernel                            *)
(* (src/ipyparallel/engine/kernel.py): the execute_request and             *)
(* apply_request handlers of the shell channel, do_apply, the metadata     *)
(* helpers, and the abort_request / clear_request control handlers.        *)
(*                                                                         *)
(* Python strings are sequences of one-character strings, so that          *)
(* str.replace and string concatenation are computed, not assumed.         *)
(* A dict is a total function onto its values plus the sentinel Absent.    *)
(* Each step records in `out` the ordered events of the handler that ran.  *)
(***************************************************************************)
EXTENDS Integers, Sequences, FiniteSets, TLC

VARIABLES
    user_ns,          \* shell.user_ns, the Shared Namespace
    aborted,          \* self.aborted, the Abort Registry
    queue,            \* headers of the messages waiting on the shell stream
    execution_count,  \* self.execution_count
    engine_id,        \* self.engine_id
    int_id,           \* self.int_id
    running,          \* the apply request whose callable is being called
    passed,           \* history: str() of every identifier given to abort_request
    last,             \* the message handled by the last step, and how
    out               \* the ordered events emitted by the last step

vars == <<user_ns, aborted, queue, execution_count, engine_id, int_id,
          running, passed, last, out>>

-----------------------------------------------------------------------------
(* Bounds *)

MaxQueue == 2       \* messages that may wait on the shell stream
MaxCount == 1       \* cap on execution_count

-----------------------------------------------------------------------------
(* Python values *)

Absent == "<absent>"          \* the key is not in the dict
None == "None"

PyStr(s) == [str |-> s]
PyInt(n) == [int |-> n]

Digit == <<"0", "1", "2", "3", "4", "5", "6", "7", "8", "9">>

RECURSIVE NatToStr(_)
NatToStr(n) ==
    IF n < 10 THEN <<Digit[n + 1]>>
    ELSE NatToStr(n \div 10) \o <<Digit[(n % 10) + 1]>>

\* str(x): a str is returned as is, an int is written in decimal
Str(x) ==
    IF "str" \in DOMAIN x THEN x.str
    ELSE IF x.int < 0 THEN <<"-">> \o NatToStr(0 - x.int)
    ELSE NatToStr(x.int)

\* s.replace(old, "") for a one-character old
RECURSIVE Replace(_, _)
Replace(s, old) ==
    IF s = <<>> THEN <<>>
    ELSE IF Head(s) = old THEN Replace(Tail(s), old)
    ELSE <<Head(s)>> \o Replace(Tail(s), old)

\* the characters str.isalnum accepts, among ASCII
AlnumChars ==
    { "0", "1", "2", "3", "4", "5", "6", "7", "8", "9",
      "a", "b", "c", "d", "e", "f", "g", "h", "i", "j", "k", "l", "m",
      "n", "o", "p", "q", "r", "s", "t", "u", "v", "w", "x", "y", "z",
      "A", "B", "C", "D", "E", "F", "G", "H", "I", "J", "K", "L", "M",
      "N", "O", "P", "Q", "R", "S", "T", "U", "V", "W", "X", "Y", "Z" }

\* s can stand as one name in Python source
IsIdentifier(s) ==
    /\ s # <<>>
    /\ \A i \in 1..Len(s) : s[i] \in AlnumChars \cup {"_"}
    /\ s[1] \notin { "0", "1", "2", "3", "4", "5", "6", "7", "8", "9" }

\* the identifiers requests are sent with (header msg_id, always a str)
MsgIds == { <<"7">>, <<"a", "-", ".">> }

\* the values a client may put in the msg_ids list of an abort_request
AbortItems == { PyStr(m) : m \in MsgIds } \cup { PyInt(7) }

-----------------------------------------------------------------------------
(* The temporary names of do_apply *)

Prefix(msg_id) == <<"_">> \o Replace(Str(PyStr(msg_id)), "-") \o <<"_">>

Suffixes == << <<"f">>, <<"a", "r", "g", "s">>,
               <<"k", "w", "a", "r", "g", "s">>,
               <<"r", "e", "s", "u", "l", "t">> >>

fname(msg_id) == Prefix(msg_id) \o Suffixes[1]
argname(msg_id) == Prefix(msg_id) \o Suffixes[2]
kwargname(msg_id) == Prefix(msg_id) \o Suffixes[3]
resultname(msg_id) == Prefix(msg_id) \o Suffixes[4]

TempNames(msg_id) ==
    { fname(msg_id), argname(msg_id), kwargname(msg_id), resultname(msg_id) }

UserName == <<"x">>

Names == {UserName} \cup UNION { TempNames(m) : m \in MsgIds }

Values == { None, "f", "args", "kwargs", "r", "u" }

EmptyNs == [n \in Names |-> Absent]

Bound(ns) == { n \in Names : ns[n] # Absent }

-----------------------------------------------------------------------------
(* Worker identity and IOPub topics *)

ident == "engine-uuid"        \* self.ident, the opaque identity token


\* the topic without the engine's id
_topic_without_id(eid, topic) ==
    <<"e", "n", "g", "i", "n", "e", ".">> \o topic

\* "%s.%s" % ("engine.%s" % self.engine_id, topic)
_topic(eid, topic) ==
    <<"e", "n", "g", "i", "n", "e", ".">> \o Str(PyInt(eid)) \o <<".">> \o topic

ErrorTopic == <<"e", "r", "r", "o", "r">>

-----------------------------------------------------------------------------
(* Metadata *)

init_metadata ==
    [started |-> "utcnow", dependencies_met |-> TRUE, engine |-> ident]

UnmetDependencyName == "UnmetDependency"

\* dependencies_met cleared on every error, whatever its ename
finish_metadata_any_error(eid, metadata, reply_content) ==
    LET md1 == [k \in DOMAIN metadata \cup {"status"} |->
                   IF k = "status" THEN reply_content.status ELSE metadata[k]]
    IN  IF reply_content.status = "error"
        THEN [k \in DOMAIN md1 \cup {"engine_info"} |->
                 IF k = "engine_info"
                     THEN [engine_uuid |-> ident, engine_id |-> eid]
                 ELSE IF k = "dependencies_met" THEN FALSE
                 ELSE md1[k]]
        ELSE md1

finish_metadata(eid, metadata, reply_content) ==
    LET md1 == [k \in DOMAIN metadata \cup {"status"} |->
                   IF k = "status" THEN reply_content.status ELSE metadata[k]]
    IN  IF reply_content.status = "error"
        THEN [k \in DOMAIN md1 \cup {"engine_info"} |->
                 IF k = "engine_info"
                     THEN [engine_uuid |-> ident, engine_id |-> eid]
                 ELSE IF k = "dependencies_met"
                     THEN IF reply_content.ename = UnmetDependencyName
                          THEN FALSE ELSE md1[k]
                 ELSE md1[k]]
        ELSE md1

-----------------------------------------------------------------------------
(* What an apply_request carries: the buffers decode (or fail to decode)   *)
(* to a callable with its arguments.  A callable is described by what it   *)
(* does to the namespace it runs against and by how it ends.               *)

Callable(effect, outcome) == [effect |-> effect, outcome |-> outcome]

Callables ==
    { Callable("none", "return"),
      Callable("none", "ValueError"),
      Callable("none", UnmetDependencyName),
      Callable("bind_user", "return"),
      Callable("del_f", "return"),
      Callable("del_result", "return"),
      Callable("del_result", "ValueError") }

Bufs ==
    { [decode |-> "ok", f |-> c, encode |-> "ok"] : c \in Callables }
    \cup { [decode |-> "raise", f |-> Callable("none", "return"),
            encode |-> "ok"],
           [decode |-> "ok", f |-> Callable("none", "return"),
            encode |-> "raise"] }

\* the callable's own effect on the namespace while it runs
CallEffect(f, prefix, ns) ==
    CASE f.effect = "none" -> ns
      [] f.effect = "bind_user" -> [ns EXCEPT ![UserName] = "u"]
      [] f.effect = "del_f" -> [ns EXCEPT ![prefix \o Suffixes[1]] = Absent]
      [] f.effect = "del_result" -> [ns EXCEPT ![prefix \o Suffixes[4]] = Absent]

\* the order in which `for key in ns` visits the four keys of the dict
\* built at line 152: a dict iterates in insertion order
KeyOrders == { <<1, 2, 3, 4>> }

\* the finally block: working.pop(key) for each key; a missing key raises
\* KeyError and the remaining keys are not visited
RECURSIVE PopAll(_, _)
PopAll(ns, keys) ==
    IF keys = <<>> THEN [ns |-> ns, raised |-> FALSE]
    ELSE IF ns[Head(keys)] = Absent THEN [ns |-> ns, raised |-> TRUE]
    ELSE PopAll([ns EXCEPT ![Head(keys)] = Absent], Tail(keys))

Exc(ename, evalue) == [ename |-> ename, evalue |-> evalue]
NoExc == Exc("", "")

\* lines 152-154: working.update(ns)
BindTemporaries(prefix, ns) ==
    [ns EXCEPT ![prefix \o Suffixes[1]] = "f",
               ![prefix \o Suffixes[2]] = "args",
               ![prefix \o Suffixes[3]] = "kwargs",
               ![prefix \o Suffixes[4]] = None]

\* the assignment of exec("<result> = <f>(*<args>, **<kwargs>)"), made
\* only when the call returns
AssignResult(f, prefix, ns) ==
    IF f.outcome = "return" THEN [ns EXCEPT ![prefix \o Suffixes[4]] = "r"]
    ELSE ns

\* lines 155-157: the exec statement.  The four names are written into
\* the source text: with a prefix that is not an identifier the text does
\* not name the bindings, the statement raises and the callable is not called.
ExecCode(f, prefix, ns) ==
    IF IsIdentifier(prefix)
    THEN AssignResult(f, prefix, CallEffect(f, prefix, ns))
    ELSE ns

\* line 158: working.get(resultname)
WorkingGet(ns, name) == IF ns[name] = Absent THEN None ELSE ns[name]

\* the exception that leaves the try block of lines 138-166, NoExc if none:
\* a KeyError of the finally block replaces the callable's own exception
ApplyExc(bufs, prefix, popped) ==
    IF popped.raised THEN Exc("KeyError", "key")
    ELSE IF ~IsIdentifier(prefix) THEN Exc("NameError", "name")
    ELSE IF bufs.f.outcome # "return" THEN Exc(bufs.f.outcome, "bad")
    ELSE IF bufs.encode = "raise" THEN Exc("EncodeError", "encode")
    ELSE NoExc

\* lines 163-166: serialize_object(result), reached when nothing was raised
ApplyOutcome(exc, result, ns) ==
    [ns |-> ns, exc |-> exc,
     result_buf |-> IF exc = NoExc THEN <<result>> ELSE <<>>,
     ran |-> TRUE]

\* lines 158-166, on the namespace the exec statement left
ApplyCleanup(bufs, prefix, result, popped) ==
    ApplyOutcome(ApplyExc(bufs, prefix, popped), result, popped.ns)

ApplyFinally(bufs, prefix, order, ns) ==
    ApplyCleanup(bufs, prefix, WorkingGet(ns, prefix \o Suffixes[4]),
                 PopAll(ns, [i \in 1..4 |-> prefix \o Suffixes[order[i]]]))

\* lines 139-166: the body of the outer try.  Returns the namespace left
\* behind, the exception that escapes (NoExc if none), the result buffers
\* and whether the exec statement was reached.
ApplyBody(bufs, msg_id, ns, order) ==
    IF bufs.decode = "raise"
    THEN [ns |-> ns, exc |-> Exc("DecodeError", "decode"),
          result_buf |-> <<>>, ran |-> FALSE]
    ELSE ApplyFinally(bufs, Prefix(msg_id), order,
                      ExecCode(bufs.f, Prefix(msg_id),
                               BindTemporaries(Prefix(msg_id), ns)))

\* lines 171-188: the content of the error, before 'status' is added
ErrorContent(exc, iid) ==
    [traceback |-> <<"tb">>,
     ename |-> exc.ename,
     evalue |-> exc.evalue,
     engine_info |-> [engine_uuid |-> ident, engine_id |-> iid,
                      method |-> "apply"]]

\* the result buffers are not emptied on error
ErrorReturn_keeps_buffers(published, ns, ran, eid) ==
    [reply_content |->
         [traceback |-> published.traceback,
          ename |-> published.ename,
          evalue |-> published.evalue,
          engine_info |-> published.engine_info,
          status |-> "error"],
     result_buf |-> << None >>,
     ns |-> ns,
     events |-> ran \o << [ev |-> "publish", msg_type |-> "error",
                           content |-> published,
                           topic |-> _topic(eid, ErrorTopic)] >>]

\* lines 190-194: publish the error, then reply with status error
ErrorReturn(published, ns, ran, eid) ==
    [reply_content |->
         [traceback |-> published.traceback,
          ename |-> published.ename,
          evalue |-> published.evalue,
          engine_info |-> published.engine_info,
          status |-> "error"],
     result_buf |-> <<>>,
     ns |-> ns,
     events |-> ran \o << [ev |-> "publish", msg_type |-> "error",
                           content |-> published,
                           topic |-> _topic(eid, ErrorTopic)] >>]

\* lines 168-198: the except / else branches
ApplyReturn(b, ran, eid, iid) ==
    IF b.exc # NoExc
    THEN ErrorReturn(ErrorContent(b.exc, iid), b.ns, ran, eid)
    ELSE [reply_content |-> [status |-> "ok"],
          result_buf |-> b.result_buf,
          ns |-> b.ns,
          events |-> ran]

\* line 155: the names in "%s = %s(*%s,**%s)", in that order
CodeNames(msg_id) ==
    << resultname(msg_id), fname(msg_id), argname(msg_id), kwargname(msg_id) >>

ExecEvent(b, msg_id) ==
    IF b.ran
    THEN << [ev |-> "exec", msg_id |-> msg_id, code |-> CodeNames(msg_id)] >>
    ELSE <<>>

ApplyEvents(b, msg_id, eid, iid) ==
    ApplyReturn(b, ExecEvent(b, msg_id), eid, iid)

\* do_apply: reply content, result buffers, the namespace afterwards and
\* the events it emits, in order
do_apply(bufs, msg_id, ns, order, eid, iid) ==
    ApplyEvents(ApplyBody(bufs, msg_id, ns, order), msg_id, eid, iid)

-----------------------------------------------------------------------------
(* Messages *)

MsgTypes == { "execute_request", "apply_request" }

Headers == [msg_id : MsgIds, msg_type : MsgTypes]

Has(d, k) == k \in DOMAIN d

\* d.get(k, default)
Get(d, k, default) == IF Has(d, k) THEN d[k] ELSE default

\* What the code of an execute_request does when the interactive engine
\* runs it: the name it binds (<<>> for none) and how it ends.
Code(binds, outcome) == [binds |-> binds, outcome |-> outcome]

Codes ==
    { Code(<<>>, "ok"),
      Code(resultname(<<"7">>), "ok"),
      Code(<<>>, "ValueError"),
      Code(<<>>, UnmetDependencyName) }

ExecuteContents ==
    { [code |-> c, silent |-> s] : c \in Codes, s \in BOOLEAN }
    \cup { [code |-> c, silent |-> s, stop_on_error |-> e] :
              c \in Codes, s \in BOOLEAN, e \in BOOLEAN }
    \cup { [silent |-> s] : s \in BOOLEAN }
    \cup { [code |-> c] : c \in Codes }

ExecuteParents(hdr) ==
    { [header |-> hdr, content |-> c] : c \in ExecuteContents }
    \cup { [header |-> hdr] }

ApplyParents(hdr) ==
    { [header |-> hdr, content |-> "", buffers |-> b] : b \in Bufs }
    \cup { [header |-> hdr, content |-> ""], [header |-> hdr, buffers |-> <<>>] }

\* the msg_ids field of an abort_request: a list, or a single str
AbortLists ==
    { <<>> } \cup { <<a>> : a \in AbortItems }
             \cup { <<PyStr(<<"a", "-", ".">>), PyInt(7)>> }

AbortContents ==
    { [msg_ids |-> [list |-> l]] : l \in AbortLists }
    \cup { [msg_ids |-> PyStr(m)] : m \in MsgIds }
    \cup { [other |-> ""] }

-----------------------------------------------------------------------------
(* The interactive engine and the queue purge, which the kernel inherits   *)

\* IPythonKernel.do_execute: runs the code against the namespace and
\* returns the reply content
do_execute(code, ns) ==
    [reply_content |->
         IF code.outcome = "ok" THEN [status |-> "ok"]
         ELSE [status |-> "error", ename |-> code.outcome,
               evalue |-> "bad", traceback |-> <<"tb">>],
     ns |-> IF code.binds = <<>> THEN ns ELSE [ns EXCEPT ![code.binds] = "u"]]

\* ipykernel.jsonutil.json_clean: strings, booleans and lists of strings
\* are already JSON-clean and come back unchanged, field by field
json_clean(content) == [k \in DOMAIN content |-> content[k]]

\* Kernel._abort_queues: everything currently queued is purged unexecuted
_abort_queues(q) ==
    [queue |-> <<>>,
     events |-> << [ev |-> "purge",
                    msg_ids |-> [i \in 1..Len(q) |-> q[i].msg_id]] >>]

Flush == << [ev |-> "flush", stream |-> "stdout"],
            [ev |-> "flush", stream |-> "stderr"] >>

\* a message missing a field is answered
BadMsg_replies ==
    << [ev |-> "log", level |-> "error"],
       [ev |-> "send", msg_type |-> "error_reply",
        content |-> [status |-> "error"]] >>


BadMsg == << [ev |-> "log", level |-> "error"] >>

-----------------------------------------------------------------------------
(* Shell handlers.  Each returns the state it leaves and its events; q is  *)
(* what is still waiting on the shell stream while the handler runs.       *)

\* lines 70-80: the fields the try block reads without a default
ExecuteWellFormed(parent) ==
    /\ Has(parent, "content")
    /\ Has(parent.content, "code")
    /\ Has(parent.content, "silent")

\* lines 114-120
ApplyWellFormed(parent) ==
    /\ Has(parent, "content")
    /\ Has(parent, "buffers")
    /\ Has(parent, "header")
    /\ Has(parent.header, "msg_id")

\* the bulk abort without regard to the silent flag
StopCondition_ignoring_silent(silent, status, stop_on_error) ==
    status = "error" /\ stop_on_error

\* line 110: whether the queued work is aborted after the reply
StopCondition(silent, status, stop_on_error) ==
    ~silent /\ status = "error" /\ stop_on_error

\* the queue purged before the reply is sent
AbortThenSend(reply, purge) == purge \o <<reply>>

\* lines 104-111: session.send, then _abort_queues if it applies
SendThenAbort(reply, purge) == <<reply>> \o purge

\* the reply sent before the streams are flushed
SendThenFlush(reply) == <<reply>> \o Flush

\* lines 129-134: flush stdout and stderr, then session.send
FlushThenSend(reply) == Flush \o <<reply>>

\* lines 86-90
ExecuteInput(silent, count) ==
    IF ~silent
    THEN << [ev |-> "publish", msg_type |-> "execute_input",
             execution_count |-> count + 1] >>
    ELSE <<>>

\* lines 101-111: send the reply, then abort the queues if the reply says so
ExecuteFinish(parent, reply, purged, q, abort) ==
    [queue |-> IF abort THEN purged.queue ELSE q,
     events |-> SendThenAbort(reply, IF abort THEN purged.events ELSE <<>>)]

ExecuteReplyMsg(parent, content, md) ==
    [ev |-> "send", msg_type |-> "execute_reply",
     content |-> json_clean(content), metadata |-> md,
     parent |-> parent.header]

ExecuteSend(parent, reply, q) ==
    ExecuteFinish(parent, reply, _abort_queues(q), q,
                  StopCondition(parent.content.silent, reply.content.status,
                                Get(parent.content, "stop_on_error", TRUE)))

\* lines 92-111, given what do_execute returned
ExecuteDone(parent, done, fin, count) ==
    [ns |-> done.ns,
     count |-> IF ~parent.content.silent THEN count + 1 ELSE count,
     queue |-> fin.queue,
     events |-> ExecuteInput(parent.content.silent, count)
                \o << [ev |-> "exec", msg_id |-> parent.header.msg_id] >>
                \o Flush \o fin.events]

ExecuteRun(parent, done, count, q, eid) ==
    ExecuteDone(parent, done,
                ExecuteSend(parent,
                            ExecuteReplyMsg(parent, done.reply_content,
                                finish_metadata(eid, init_metadata,
                                                done.reply_content)),
                            q),
                count)

execute_request(parent, ns, count, q, eid) ==
    IF ~ExecuteWellFormed(parent)
    THEN [ns |-> ns, count |-> count, queue |-> q, events |-> BadMsg]
    ELSE ExecuteRun(parent, do_execute(parent.content.code, ns), count, q, eid)

\* lines 126-134, given what do_apply returned
ApplyDone(parent, done, eid) ==
    [ns |-> done.ns,
     events |-> done.events \o FlushThenSend(
         [ev |-> "send", msg_type |-> "apply_reply",
          content |-> done.reply_content,
          metadata |-> finish_metadata(eid, init_metadata, done.reply_content),
          buffers |-> done.result_buf, parent |-> parent.header])]

apply_request(parent, ns, order, eid, iid) ==
    IF ~ApplyWellFormed(parent)
    THEN [ns |-> ns, events |-> BadMsg]
    ELSE ApplyDone(parent,
                   do_apply(parent.buffers, parent.header.msg_id, ns, order,
                            eid, iid),
                   eid)

-----------------------------------------------------------------------------
(* Control handlers *)

\* the identifiers an abort_request names, after the str -> [str] wrapping;
\* None when the field is absent
AbortIds(content) ==
    IF ~Has(content, "msg_ids") THEN None
    ELSE IF Has(content.msg_ids, "str") THEN << content.msg_ids >>
    ELSE content.msg_ids.list

AbortReply == << [ev |-> "send", msg_type |-> "abort_reply",
                   content |-> [status |-> "ok"]] >>

\* lines 208-209: `if not msg_ids: self._abort_queues()`
AbortPurge(msg_ids, purged, q) ==
    IF msg_ids = None \/ msg_ids = <<>> THEN purged
    ELSE [queue |-> q, events |-> <<>>]

\* the identifiers are not recorded in the registry
AbortAdd_not_recorded(msg_ids, ab, p) ==
    IF msg_ids = None
    THEN [aborted |-> ab, queue |-> p.queue, added |-> {},
          events |-> p.events \o << [ev |-> "raise", ename |-> "TypeError"] >>]
    ELSE [aborted |-> ab, queue |-> p.queue,
          added |-> { Str(msg_ids[i]) : i \in 1..Len(msg_ids) },
          events |-> p.events \o AbortReply]

\* the registry is replaced by the identifiers of this request
AbortAdd_forgets_earlier(msg_ids, ab, p) ==
    IF msg_ids = None
    THEN [aborted |-> ab, queue |-> p.queue, added |-> {},
          events |-> p.events \o << [ev |-> "raise", ename |-> "TypeError"] >>]
    ELSE [aborted |-> { Str(msg_ids[i]) : i \in 1..Len(msg_ids) },
          queue |-> p.queue,
          added |-> { Str(msg_ids[i]) : i \in 1..Len(msg_ids) },
          events |-> p.events \o AbortReply]

\* lines 210-215: record str() of each identifier, then reply;
\* `for mid in None` raises TypeError and the handler ends there
AbortAdd(msg_ids, ab, p) ==
    IF msg_ids = None
    THEN [aborted |-> ab, queue |-> p.queue, added |-> {},
          events |-> p.events \o << [ev |-> "raise", ename |-> "TypeError"] >>]
    ELSE [aborted |-> ab \cup { Str(msg_ids[i]) : i \in 1..Len(msg_ids) },
          queue |-> p.queue,
          added |-> { Str(msg_ids[i]) : i \in 1..Len(msg_ids) },
          events |-> p.events \o AbortReply]

AbortRun(msg_ids, ab, q) ==
    AbortAdd(msg_ids, ab, AbortPurge(msg_ids, _abort_queues(q), q))

abort_request(parent, ab, q) == AbortRun(AbortIds(parent.content), ab, q)

\* the reset leaves the names do_apply binds
clear_request_keeps_temporaries(ns) ==
    [ns |-> [ns EXCEPT ![UserName] = Absent],
     events |-> << [ev |-> "send", msg_type |-> "clear_reply",
                    content |-> [status |-> "ok"]] >>]


clear_request(ns) ==
    [ns |-> EmptyNs,
     events |-> << [ev |-> "send", msg_type |-> "clear_reply",
                    content |-> [status |-> "ok"]] >>]

-----------------------------------------------------------------------------
(* The state machine *)

\* no callable is being called
Idle == [op |-> "idle"]

Init ==
    /\ user_ns = EmptyNs
    /\ aborted = {}
    /\ queue = <<>>
    /\ execution_count = 0
    /\ engine_id = 1        \* the id the engine was registered under
    /\ int_id = -1          \* never assigned by this class
    /\ running = Idle
    /\ passed = {}
    /\ last = [op |-> "init"]
    /\ out = <<>>

\* a client sends a request: it waits on the shell stream
Submit ==
    \E hdr \in Headers :
        /\ Len(queue) < MaxQueue
        /\ queue' = Append(queue, hdr)
        /\ last' = [op |-> "submit", header |-> hdr]
        /\ out' = <<>>
        /\ UNCHANGED <<user_ns, aborted, execution_count, engine_id, int_id,
                       running, passed>>

\* the shell dispatcher finds the identifier in the Abort Registry
DispatchAborted ==
    /\ queue # <<>>
    /\ Head(queue).msg_id \in aborted
    /\ queue' = Tail(queue)
    /\ last' = [op |-> "rejected", header |-> Head(queue)]
    /\ out' = << [ev |-> "rejected", msg_id |-> Head(queue).msg_id] >>
    /\ UNCHANGED <<user_ns, aborted, execution_count, engine_id, int_id,
                   running, passed>>

ExecuteStep(parent, r) ==
    /\ r.count <= MaxCount
    /\ user_ns' = r.ns
    /\ execution_count' = r.count
    /\ queue' = r.queue
    /\ last' = [op |-> "execute_request", parent |-> parent]
    /\ out' = r.events

DispatchExecute ==
    /\ queue # <<>>
    /\ Head(queue).msg_id \notin aborted
    /\ Head(queue).msg_type = "execute_request"
    /\ \E parent \in ExecuteParents(Head(queue)) :
         ExecuteStep(parent,
                     execute_request(parent, user_ns, execution_count,
                                     Tail(queue), engine_id))
    /\ UNCHANGED <<aborted, engine_id, int_id, running, passed>>

ApplyStep(parent, r) ==
    /\ user_ns' = r.ns
    /\ queue' = Tail(queue)
    /\ last' = [op |-> "apply_request", parent |-> parent]
    /\ out' = r.events

DispatchApply ==
    /\ queue # <<>>
    /\ Head(queue).msg_id \notin aborted
    /\ Head(queue).msg_type = "apply_request"
    /\ \E parent \in ApplyParents(Head(queue)), order \in KeyOrders :
         ApplyStep(parent,
                   apply_request(parent, user_ns, order, engine_id, int_id))
    /\ UNCHANGED <<aborted, execution_count, engine_id, int_id, running,
                   passed>>

AbortStep(parent, r) ==
    /\ aborted' = r.aborted
    /\ queue' = r.queue
    /\ passed' = passed \cup r.added
    /\ last' = [op |-> "abort_request", parent |-> parent]
    /\ out' = r.events

AbortRequest ==
    /\ \E content \in AbortContents :
         AbortStep([content |-> content],
                   abort_request([content |-> content], aborted, queue))
    /\ UNCHANGED <<user_ns, execution_count, engine_id, int_id, running>>

\* the reset empties the Abort Registry as well
ClearRequest_resets_registry ==
    /\ user_ns' = clear_request(user_ns).ns
    /\ aborted' = {}
    /\ last' = [op |-> "clear_request"]
    /\ out' = clear_request(user_ns).events
    /\ UNCHANGED <<queue, execution_count, engine_id, int_id, running, passed>>


ClearRequest ==
    /\ user_ns' = clear_request(user_ns).ns
    /\ last' = [op |-> "clear_request"]
    /\ out' = clear_request(user_ns).events
    /\ UNCHANGED <<aborted, queue, execution_count, engine_id, int_id,
                   running, passed>>

Next ==
    \/ Submit
    \/ DispatchAborted
    \/ DispatchExecute
    \/ DispatchApply
    \/ AbortRequest
    \/ ClearRequest

Spec == Init /\ [][Next]_vars

-----------------------------------------------------------------------------
(* A control request handled while a callable is being called.            *)
(* The shell handlers above run a request in one step.  The control       *)
(* handlers are separate callbacks: when one of them runs before the exec *)
(* statement of do_apply has returned, do_apply is cut in two at the call. *)

\* the requests whose callable is reached: do_apply decodes the buffers and
\* the exec statement names the bindings
CallsCallable(parent) ==
    /\ ApplyWellFormed(parent)
    /\ parent.buffers.decode = "ok"
    /\ IsIdentifier(Prefix(parent.header.msg_id))

\* lines 139-157, up to the call: the temporaries are bound and the callable
\* has acted on the namespace but has not returned
ApplyBegin ==
    /\ running = Idle
    /\ queue # <<>>
    /\ Head(queue).msg_id \notin aborted
    /\ Head(queue).msg_type = "apply_request"
    /\ \E parent \in ApplyParents(Head(queue)), order \in KeyOrders :
         /\ CallsCallable(parent)
         /\ user_ns' = CallEffect(parent.buffers.f,
                                  Prefix(parent.header.msg_id),
                                  BindTemporaries(Prefix(parent.header.msg_id),
                                                  user_ns))
         /\ running' = [op |-> "apply", parent |-> parent, order |-> order]
         /\ last' = [op |-> "apply_begin", parent |-> parent]
         /\ out' = << [ev |-> "exec", msg_id |-> parent.header.msg_id,
                        code |-> CodeNames(parent.header.msg_id)] >>
    /\ queue' = Tail(queue)
    /\ UNCHANGED <<aborted, execution_count, engine_id, int_id, passed>>

\* lines 155-198 and 130-134, from the return of the call: the result is
\* assigned, read, the temporaries are popped and the reply is sent
ApplyReturns(run, ns, eid, iid) ==
    ApplyDone(run.parent,
              ApplyReturn(ApplyFinally(run.parent.buffers,
                                       Prefix(run.parent.header.msg_id),
                                       run.order,
                                       AssignResult(run.parent.buffers.f,
                                           Prefix(run.parent.header.msg_id),
                                           ns)),
                          <<>>, eid, iid),
              eid)

\* a request aborted while its callable runs is answered as aborted
ApplyEnd_cancelled_when_aborted ==
    /\ running # Idle
    /\ IF running.parent.header.msg_id \in aborted
       THEN /\ user_ns' = user_ns
            /\ out' = << [ev |-> "send", msg_type |-> "apply_reply",
                           content |-> [status |-> "aborted"],
                           metadata |-> init_metadata,
                           buffers |-> <<>>,
                           parent |-> running.parent.header] >>
       ELSE /\ user_ns' = ApplyReturns(running, user_ns, engine_id, int_id).ns
            /\ out' = ApplyReturns(running, user_ns, engine_id, int_id).events
    /\ last' = [op |-> "apply_end", parent |-> running.parent]
    /\ running' = Idle
    /\ UNCHANGED <<aborted, queue, execution_count, engine_id, int_id, passed>>


ApplyEnd ==
    /\ running # Idle
    /\ user_ns' = ApplyReturns(running, user_ns, engine_id, int_id).ns
    /\ out' = ApplyReturns(running, user_ns, engine_id, int_id).events
    /\ last' = [op |-> "apply_end", parent |-> running.parent]
    /\ running' = Idle
    /\ UNCHANGED <<aborted, queue, execution_count, engine_id, int_id, passed>>

\* the shell stream hands over the next request when the handler of the
\* last one has returned; an apply request is handled in one step, or in
\* the two steps ApplyBegin and ApplyEnd with control requests in between
InFlightNext ==
    \/ Submit
    \/ running = Idle /\ DispatchAborted
    \/ running = Idle /\ DispatchExecute
    \/ running = Idle /\ DispatchApply
    \/ ApplyBegin
    \/ ApplyEnd
    \/ AbortRequest
    \/ ClearRequest

SpecInFlight == Init /\ [][InFlightNext]_vars

TypeOK ==
    /\ DOMAIN user_ns = Names
    /\ \A n \in Names : user_ns[n] \in Values \cup {Absent}
    /\ aborted \subseteq { Str(a) : a \in AbortItems }
    /\ Len(queue) <= MaxQueue
    /\ execution_count \in 0..MaxCount
    /\ running.op \in {"idle", "apply"}

-----------------------------------------------------------------------------
(* Reading the events of the last step *)

Events(e) == { i \in DOMAIN out : out[i].ev = e }

Sends(t) == { i \in Events("send") : out[i].msg_type = t }

Publishes(t) == { i \in Events("publish") : out[i].msg_type = t }

\* the last step ran apply_request on a message with its required fields
AppliedLast == last.op = "apply_request" /\ ApplyWellFormed(last.parent)

\* the last step ran execute_request on a message with its required fields
ExecutedLast == last.op = "execute_request" /\ ExecuteWellFormed(last.parent)

\* the reply of the last apply_request / execute_request
ApplyReply == out[CHOOSE i \in Sends("apply_reply") : TRUE]
ExecuteReply == out[CHOOSE i \in Sends("execute_reply") : TRUE]

-----------------------------------------------------------------------------
(* C1 *)

\* C1: once do_apply has returned, none of the four temporary names of the
\* request is bound in the Shared Namespace, whatever the callable did.
C1_TempNamesRemoved ==
    AppliedLast =>
        TempNames(last.parent.header.msg_id) \cap Bound(user_ns) = {}

-----------------------------------------------------------------------------
(* C2 *)

\* the last step took a request off the shell stream
DispatchedLast == last.op \in {"rejected", "execute_request", "apply_request"}

LastHeader ==
    IF last.op = "rejected" THEN last.header ELSE last.parent.header

\* the last request reached the callable / the code: nothing failed before
RunsCode ==
    \/ ExecutedLast
    \/ AppliedLast /\ last.parent.buffers.decode = "ok"

\* C2: a request whose identifier was passed to abort_request before it is
\* dispatched is rejected and neither handler nor callable runs; a request
\* whose identifier was never passed to abort_request is handled, and its
\* callable / code is executed.
C2_AbortedRejected ==
    DispatchedLast =>
        /\ LastHeader.msg_id \in passed =>
               /\ last.op = "rejected"
               /\ Events("exec") = {}
               /\ Events("send") = {}
        /\ LastHeader.msg_id \notin passed =>
               /\ last.op # "rejected"
               /\ RunsCode => Events("exec") # {}

C2_Witness ==
    /\ last.op = "rejected"
    /\ LastHeader.msg_id \in passed
    /\ Events("exec") = {}

-----------------------------------------------------------------------------
(* C3 *)

EngineErrorTopic ==
    <<"e", "n", "g", "i", "n", "e", ".", "1", ".", "e", "r", "r", "o", "r">>

\* C3: an apply request with its required fields gets exactly one
\* apply_reply; when the reply status is error exactly one `error`
\* notification is published, on topic engine.<engine_id>.error, and when
\* it is ok none is published.
C3_OneReplyOneNotification ==
    AppliedLast =>
        /\ Cardinality(Sends("apply_reply")) = 1
        /\ ApplyReply.content.status \in {"ok", "error"}
        /\ ApplyReply.content.status = "error" =>
               /\ Cardinality(Publishes("error")) = 1
               /\ \A i \in Publishes("error") :
                      engine_id = 1 => out[i].topic = EngineErrorTopic
        /\ ApplyReply.content.status = "ok" => Publishes("error") = {}

C3_Witness ==
    /\ AppliedLast
    /\ ApplyReply.content.status = "error"
    /\ Cardinality(Publishes("error")) = 1

-----------------------------------------------------------------------------
(* C4 *)

ControlReplyType ==
    IF last.op = "abort_request" THEN "abort_reply" ELSE "clear_reply"

\* C4: every abort_request and every clear_request is answered with
\* exactly one reply, of content {status: ok}, and the handler does not fail.
C4_ControlAlwaysReplies ==
    last.op \in {"abort_request", "clear_request"} =>
        /\ Cardinality(Sends(ControlReplyType)) = 1
        /\ \A i \in Sends(ControlReplyType) : out[i].content = [status |-> "ok"]
        /\ Events("raise") = {}

-----------------------------------------------------------------------------
(* C5 *)

\* C5: an abort_request with a non-empty identifier list adds str() of each
\* identifier to the Abort Registry and leaves the queue alone; with an
\* empty list it purges the queue and leaves the registry alone; with no
\* msg_ids field it does exactly what it does with an empty list, reply
\* included.
C5_AbortEffects ==
    [][ last'.op = "abort_request" =>
          LET ids == AbortIds(last'.parent.content)
              whenEmpty == abort_request([content |-> [msg_ids |-> [list |-> <<>>]]],
                                         aborted, queue)
          IN  IF ids = None \/ ids = <<>>
              THEN /\ queue' = <<>>
                   /\ aborted' = aborted
                   /\ Events("purge")' # {}
                   /\ out' = whenEmpty.events
              ELSE /\ queue' = queue
                   /\ Events("purge")' = {}
                   /\ aborted' = aborted \cup
                          { IF Has(ids[i], "str") THEN ids[i].str
                            ELSE <<"7">> : i \in 1..Len(ids) }
    ]_vars

-----------------------------------------------------------------------------
(* C6 *)

Replies == Sends("execute_reply") \cup Sends("apply_reply")

\* C6: in the metadata of every execute_reply and apply_reply,
\* dependencies_met is false exactly when the reply status is error and
\* its ename is UnmetDependency, and true otherwise.
C6_DependenciesMet ==
    \A i \in Replies :
        /\ out[i].metadata.dependencies_met \in BOOLEAN
        /\ out[i].metadata.dependencies_met = FALSE <=>
               /\ out[i].content.status = "error"
               /\ out[i].content.ename = "UnmetDependency"

C6_Witness ==
    \E i \in Replies :
        /\ out[i].content.status = "error"
        /\ out[i].content.ename = "UnmetDependency"
        /\ out[i].metadata.dependencies_met = FALSE

-----------------------------------------------------------------------------
(* C7, C8 *)

\* stop_on_error is set: explicitly, or by default when the field is absent
StopOnErrorSet ==
    \/ ~Has(last.parent.content, "stop_on_error")
    \/ last.parent.content.stop_on_error = TRUE

\* the last step was an execute request that ended with error status while
\* stop_on_error was set
FailedUnderStop ==
    /\ ExecutedLast
    /\ ExecuteReply.content.status = "error"
    /\ StopOnErrorSet

Before(I, J) == \A i \in I, j \in J : i < j

\* C7 as stated: the purge of the queued work precedes the send of the
\* execute_reply.
C7_PurgeBeforeReply ==
    FailedUnderStop =>
        /\ Events("purge") # {}
        /\ Before(Events("purge"), Sends("execute_reply"))

\* C7 as amended: for a request that is not silent the execute_reply is
\* sent first and the purge of the queued work follows it.
C7_ReplyBeforePurge ==
    FailedUnderStop /\ ~last.parent.content.silent =>
        /\ Cardinality(Events("purge")) = 1
        /\ Cardinality(Sends("execute_reply")) = 1
        /\ Before(Sends("execute_reply"), Events("purge"))
        /\ queue = <<>>

C7_Witness ==
    /\ FailedUnderStop
    /\ ~last.parent.content.silent
    /\ \E i \in Events("purge") : out[i].msg_ids # <<>>

\* C8 as stated: the bulk abort happens exactly for the execute requests
\* that end with error status while stop_on_error is set, whatever the
\* silent flag.
C8_AbortIffFailedUnderStop ==
    ExecutedLast => (Events("purge") # {} <=> FailedUnderStop)

\* C8 as amended: the bulk abort happens exactly for the execute requests
\* that are not silent and end with error status while stop_on_error is set.
C8_AbortIffLoudFailedUnderStop ==
    ExecutedLast =>
        (Events("purge") # {} <=>
             FailedUnderStop /\ last.parent.content.silent = FALSE)

C8_Witness ==
    /\ FailedUnderStop
    /\ Has(last.parent.content, "stop_on_error")
    /\ last.parent.content.silent = FALSE
    /\ Events("purge") # {}

-----------------------------------------------------------------------------
(* C9 *)

FlushesOf(stream) == { i \in Events("flush") : out[i].stream = stream }

\* C9: every execute_reply and apply_reply is sent after standard output
\* and standard error were flushed, and the flushes come after the
\* execution of the request has finished.
C9_FlushBeforeReply ==
    \A j \in Replies :
        /\ \E i \in FlushesOf("stdout") : i < j
        /\ \E i \in FlushesOf("stderr") : i < j
        /\ Before(Events("exec"), Events("flush"))
        /\ Before(Publishes("error"), Events("flush"))

C9_Witness ==
    /\ AppliedLast
    /\ Events("exec") # {}
    /\ Sends("apply_reply") # {}
    /\ Before(Events("flush"), Sends("apply_reply"))

-----------------------------------------------------------------------------
(* C10 *)

\* the names the callable of an apply request binds or changes itself
TouchedByCallable(parent) ==
    IF parent.buffers.decode # "ok"
       \/ ~IsIdentifier(Prefix(parent.header.msg_id)) THEN {}
    ELSE CASE parent.buffers.f.effect = "none" -> {}
           [] parent.buffers.f.effect = "bind_user" -> { <<"x">> }
           [] parent.buffers.f.effect = "del_f" ->
                  { fname(parent.header.msg_id) }
           [] parent.buffers.f.effect = "del_result" ->
                  { resultname(parent.header.msg_id) }

\* C10: after an apply request the Shared Namespace holds the names and
\* values it held before, except for the names the callable itself bound
\* or changed.
C10_NamespaceFrame ==
    [][ AppliedLast' =>
          \A n \in Names \ TouchedByCallable(last'.parent) :
              user_ns'[n] = user_ns[n]
    ]_vars

-----------------------------------------------------------------------------
(* C11 *)

ClearReply ==
    << [ev |-> "send", msg_type |-> "clear_reply",
        content |-> [status |-> "ok"]] >>

\* C11: after clear_request, from whatever namespace, nothing is bound in
\* the Shared Namespace and the one message sent is clear_reply with
\* {status: ok}; clear_request run again on that state leaves the same
\* namespace and sends the same reply.
C11_ClearIdempotent ==
    last.op = "clear_request" =>
        /\ Bound(user_ns) = {}
        /\ out = ClearReply
        /\ clear_request(user_ns).ns = user_ns
        /\ clear_request(user_ns).events = out

C11_Witness ==
    /\ last.op = "clear_request"
    /\ Bound(user_ns) = {}
    /\ Sends("clear_reply") # {}
    /\ clear_request(user_ns).ns = EmptyNs

-----------------------------------------------------------------------------
(* C12 *)

\* C12: no step removes an identifier from the Abort Registry: what
\* abort_request added is there in every later state.
C12_RegistryOnlyGrows == [][aborted \subseteq aborted']_vars

C12_Witness ==
    /\ last.op \in {"apply_request", "execute_request"}
    /\ aborted # {}
    /\ passed \subseteq aborted

-----------------------------------------------------------------------------
(* C13 *)

\* a required field of an execute request is missing (lines 70-75)
MalformedExecute(parent) ==
    \/ ~Has(parent, "content")
    \/ ~Has(parent.content, "code")
    \/ ~Has(parent.content, "silent")

\* a required field of an apply request is missing (lines 114-117)
MalformedApply(parent) ==
    \/ ~Has(parent, "content")
    \/ ~Has(parent, "buffers")
    \/ ~Has(parent, "header")
    \/ ~Has(parent.header, "msg_id")

MalformedLast ==
    \/ last.op = "execute_request" /\ MalformedExecute(last.parent)
    \/ last.op = "apply_request" /\ MalformedApply(last.parent)

\* C13: a step that handles an execute or apply request missing a required
\* field only logs: it sends no reply, publishes nothing, runs no code, and
\* leaves the Shared Namespace, the Abort Registry and the execution
\* counter as they were.
C13_MalformedDropped ==
    [][MalformedLast' =>
          /\ out' # <<>>
          /\ \A i \in DOMAIN out' : out'[i].ev = "log"
          /\ user_ns' = user_ns
          /\ aborted' = aborted
          /\ execution_count' = execution_count
    ]_vars

C13_Witness ==
    /\ last.op = "execute_request"
    /\ Has(last.parent, "content")
    /\ ~Has(last.parent.content, "silent")
    /\ Events("log") # {}
    /\ Events("send") = {}

-----------------------------------------------------------------------------
(* C14 *)

ErrorFields == {"ename", "evalue", "traceback", "engine_info"}

\* C14: the content of every apply_reply has status ok or error; ename,
\* evalue, traceback and engine_info are in it exactly when the status is
\* error; and with status error the reply carries no result buffer.
C14_ReplyShape ==
    \A i \in Sends("apply_reply") :
        /\ out[i].content.status \in {"ok", "error"}
        /\ out[i].content.status = "error" =>
               /\ ErrorFields \subseteq DOMAIN out[i].content
               /\ out[i].buffers = <<>>
        /\ out[i].content.status = "ok" =>
               ErrorFields \cap DOMAIN out[i].content = {}

C14_Witness ==
    /\ AppliedLast
    /\ ApplyReply.content.status = "error"
    /\ ErrorFields \subseteq DOMAIN ApplyReply.content
    /\ ApplyReply.buffers = <<>>

-----------------------------------------------------------------------------
(* C15 *)

\* the exec statement of the last apply request called the callable
CalledLast ==
    /\ AppliedLast
    /\ last.parent.buffers.decode = "ok"
    /\ IsIdentifier(Prefix(last.parent.header.msg_id))

\* C15: whatever is raised while an apply request is handled comes back as
\* one error reply that carries the class name and the string value of that
\* exception, and nothing is raised out of the handler: a failure to decode
\* is reported as that failure, an exception of the callable as that
\* exception.
C15_ExceptionReported ==
    AppliedLast =>
        /\ Cardinality(Sends("apply_reply")) = 1
        /\ Events("raise") = {}
        /\ last.parent.buffers.decode = "raise" =>
               /\ ApplyReply.content.status = "error"
               /\ ApplyReply.content.ename = "DecodeError"
               /\ ApplyReply.content.evalue = "decode"
        /\ (CalledLast /\ last.parent.buffers.f.outcome # "return") =>
               /\ ApplyReply.content.status = "error"
               /\ ApplyReply.content.ename = last.parent.buffers.f.outcome
               /\ ApplyReply.content.evalue = "bad"

-----------------------------------------------------------------------------
(* C17 *)

\* C17: a clear_request step leaves the Abort Registry as it was.
C17_ClearKeepsRegistry ==
    [][last'.op = "clear_request" => aborted' = aborted]_vars

C17_Witness ==
    /\ last.op = "clear_request"
    /\ aborted # {}
    /\ aborted = passed

-----------------------------------------------------------------------------
(* C18 *)

\* C18: for a failed apply request the engine_info of the reply content,
\* of the published error and of the reply metadata hold the same
\* engine_uuid and the same engine_id, and the error is published on the
\* topic engine.<that engine_id>.error.
C18_SameWorkerInfo ==
    (AppliedLast /\ ApplyReply.content.status = "error") =>
        /\ ApplyReply.content.engine_info.engine_uuid
               = ApplyReply.metadata.engine_info.engine_uuid
        /\ ApplyReply.content.engine_info.engine_id
               = ApplyReply.metadata.engine_info.engine_id
        /\ \A i \in Publishes("error") :
               /\ out[i].content.engine_info
                      = ApplyReply.content.engine_info
               /\ out[i].topic
                      = _topic(ApplyReply.content.engine_info.engine_id,
                               ErrorTopic)

-----------------------------------------------------------------------------
(* C20 *)

\* s without the characters that are not letters or digits
OnlyAlnum(s) == SelectSeq(s, LAMBDA c : c \in AlnumChars)

\* C20: each temporary name in the statement do_apply executes is
\* "_" + the identifier without its non-alphanumeric characters + "_" +
\* one of f, args, kwargs, result, and so holds only letters, digits and
\* underscores.
C20_PrefixAlnum ==
    \A i \in Events("exec") :
        AppliedLast =>
            \A k \in DOMAIN out[i].code :
                /\ \E j \in DOMAIN Suffixes :
                       out[i].code[k]
                           = <<"_">> \o OnlyAlnum(out[i].msg_id) \o <<"_">>
                                 \o Suffixes[j]
                /\ \A c \in DOMAIN out[i].code[k] :
                       out[i].code[k][c] \in AlnumChars \cup {"_"}

-----------------------------------------------------------------------------
(* C16 *)

\* the callable of the running request
RunningCallable == running.parent.buffers.f

RunningId == running.parent.header.msg_id

\* every temporary name the finally loop pops is still bound when the
\* call returns: neither the callable nor a reset removed one
TemporariesBound ==
    TempNames(RunningId)
        \subseteq Bound(AssignResult(RunningCallable, Prefix(RunningId),
                                     user_ns))

\* the step is the return of the callable of the running request
CallReturns == running # Idle /\ running' = Idle

\* the reply the step sends tells what the callable itself did
OwnOutcome ==
    /\ Cardinality(Sends("apply_reply")') = 1
    /\ ApplyReply'.parent = running.parent.header
    /\ (RunningCallable.outcome = "return"
            /\ running.parent.buffers.encode = "ok") =>
           /\ ApplyReply'.content.status = "ok"
           /\ ApplyReply'.buffers = << "r" >>
    /\ RunningCallable.outcome # "return" =>
           /\ ApplyReply'.content.status = "error"
           /\ ApplyReply'.content.ename = RunningCallable.outcome

-----------------------------------------------------------------------------
(* C19 *)

\* C19: when clear_request is handled while the callable of an apply
\* request is being called, the request still sends its one apply_reply
\* with the status of the callable's own outcome, and none of its
\* temporary names is bound afterwards.
C19_ClearInFlight ==
    [][(CallReturns /\ last.op = "clear_request") =>
          /\ OwnOutcome
          /\ TempNames(RunningId) \cap Bound(user_ns') = {}
    ]_vars

=============================================================================
